---- MODULE Spec2Model ----
(***************************************************************************)
(* Delegated routing over HTTP (boxo routing/http): the server's three     *)
(* endpoints (GET providers, GET ipns record, PUT ipns record) as a state  *)
(* machine over the response writer, the backend call log and the result   *)
(* iterator.                                                               *)
(*                                                                         *)
(* Representation:                                                         *)
(*  - an Accept header list is a sequence of header values; a header value *)
(*    is the sequence of its comma-separated tokens (what strings.Split    *)
(*    returns, so never empty);                                            *)
(*  - cid.Decode, ipns.NameFromCid, mime.ParseMediaType and                *)
(*    strings.Contains are tables over the strings the model draws;        *)
(*  - the record codec and the JSON marshaller are external collaborators: *)
(*    whether they fail is an input of the step that calls them;           *)
(*  - a response body is the sequence of chunks written to the client.     *)
(*  - ipns.MaxRecordSize (10 KiB) is scaled down to MaxRecordSize bytes.   *)
(***************************************************************************)
EXTENDS Integers, Sequences, FiniteSets, TLC

(***************************************************************************)
(* Program constants                                                       *)
(***************************************************************************)
mediaTypeJSON == "application/json"
mediaTypeNDJSON == "application/x-ndjson"
mediaTypeWildcard == "*/*"
mediaTypeIPNSRecord == "application/vnd.ipfs.ipns-record"

DefaultRecordsLimit == 20
DefaultStreamingRecordsLimit == 0

StatusOK == 200
StatusBadRequest == 400
StatusNotAcceptable == 406
StatusInternalServerError == 500

\* ipns.MaxRecordSize, scaled down
MaxRecordSize == 2

(***************************************************************************)
(* Bounds of the model                                                     *)
(***************************************************************************)
\* media-type tokens in all the Accept header values of one request
MaxAcceptTokens == 2
\* items a backend result sequence yields
MaxItems == 2
\* bytes of a PUT request body
MaxBodyLen == 3

(***************************************************************************)
(* Input domains                                                           *)
(***************************************************************************)
\* {cid} path segments: not a CID, a CID that is no libp2p key, a peer-ID CID
KeyStrings == {"not-a-cid", "bafkrei-raw", "k51-peerA"}

Names == {"peerA", "peerB"}

AcceptTokens ==
    { "application/json", "*/*", "application/x-ndjson",
      " Application/X-NDJSON; q=0.9", "text/html",
      "", "application/json;q" }

\* values of the Accept (GET) or Content-Type (PUT) header of the ipns endpoints,
\* as r.Header.Get returns them ("" when the header is missing)
IPNSHeaders ==
    { "", "application/json", "application/vnd.ipfs.ipns-record",
      "text/html, application/vnd.ipfs.ipns-record;q=0.9" }

Bytes == {0, 1}

BackendErrors == {"e1", "eLong"}

DiscoveryRecords == {"r1", "r2"}

\* iter.Result[types.Record]: a value or an error
Items ==
    [Val : DiscoveryRecords, Err : {"nil"}] \cup [Val : {"nil"}, Err : {"e1"}]

SeqsUpTo(S, n) == UNION {[1..k -> S] : k \in 0..n}

ItemSeqs == SeqsUpTo(Items, MaxItems)

Bodies == SeqsUpTo(Bytes, MaxBodyLen)

\* ipns.Record as the handlers see it: the key it is signed for, whether
\* the signature and validity check out, its TTL in milliseconds (-1: not retrievable)
NoRecord == [pk |-> "nil", sig |-> "nil", ttlMs |-> -1]

IPNSRecords == [pk : Names, sig : {"ok", "bad"}, ttlMs : {-1, 1500, 120000}]

\* the flat token lists cut into header values at the positions in breaks
\* (a break at p starts a new header value at token p)
GroupOf(breaks, p) == 1 + Cardinality({b \in breaks : b <= p})

CutInto(flat, breaks) ==
    [j \in 1..(Cardinality(breaks) + 1) |->
        LET idx == {p \in 1..Len(flat) : GroupOf(breaks, p) = j}
            lo  == CHOOSE p \in idx : \A q \in idx : p <= q
        IN  [q \in 1..Cardinality(idx) |-> flat[lo + q - 1]]]

AcceptHeaderLists ==
    {<<>>} \cup
    UNION { UNION { { CutInto(flat, breaks) : breaks \in SUBSET (2..k) } :
                    flat \in [1..k -> AcceptTokens] } :
            k \in 1..MaxAcceptTokens }

(***************************************************************************)
(* Library functions the handlers call, as tables over the model's strings *)
(***************************************************************************)
\* cid.Decode
CidDecode(cidStr) ==
    CASE cidStr = "bafkrei-raw" -> [err |-> FALSE, codec |-> "raw", hash |-> "h1"]
      [] cidStr = "k51-peerA"   -> [err |-> FALSE, codec |-> "libp2p-key", hash |-> "peerA"]
      [] OTHER                  -> [err |-> TRUE, codec |-> "nil", hash |-> "nil"]

\* ipns.NameFromCid: only a libp2p-key CID is a name
NameFromCid(c) ==
    IF c.codec = "libp2p-key"
    THEN [err |-> FALSE, name |-> c.hash]
    ELSE [err |-> TRUE, name |-> "nil"]

\* mime.ParseMediaType: lower-cases and trims the type, checks the parameters
ParseMediaType(accept) ==
    CASE accept = "application/json"     -> [err |-> FALSE, mediaType |-> "application/json"]
      [] accept = "*/*"                  -> [err |-> FALSE, mediaType |-> "*/*"]
      [] accept = "application/x-ndjson" -> [err |-> FALSE, mediaType |-> "application/x-ndjson"]
      [] accept = " Application/X-NDJSON; q=0.9"
                                         -> [err |-> FALSE, mediaType |-> "application/x-ndjson"]
      [] accept = "text/html"            -> [err |-> FALSE, mediaType |-> "text/html"]
      [] accept = ""                     -> [err |-> TRUE, mediaType |-> ""]
      [] accept = "application/json;q"   -> [err |-> TRUE, mediaType |-> "application/json"]
      [] OTHER                           -> [err |-> TRUE, mediaType |-> ""]

\* strings.Contains(h, mediaTypeIPNSRecord)
ContainsIPNSRecordType(h) ==
    h \in { "application/vnd.ipfs.ipns-record",
            "text/html, application/vnd.ipfs.ipns-record;q=0.9" }

\* ipns.ValidateWithName: signature and validity, and the record is the name's
ValidateWithName(record, name) == record.sig = "ok" /\ record.pk = name

Take(s, n) == IF Len(s) <= n THEN s ELSE SubSeq(s, 1, n)

\* faulty variant: the whole body is read
ReadAllUnlimited(body) == body

\* io.ReadAll(io.LimitReader(r.Body, MaxRecordSize)): at most the first
\* MaxRecordSize bytes, and no error for the bytes that are left unread
ReadAllLimited(body) == Take(body, MaxRecordSize)

(***************************************************************************)
(* http.ResponseWriter                                                     *)
(***************************************************************************)
NewResponseWriter ==
    [status |-> 0, contentType |-> "", cacheControl |-> "", etag |-> "",
     body |-> <<>>, flushed |-> 0, flusher |-> TRUE]

\* w.Header().Set: no effect on the wire once the status line is written
HeaderSet(w, k, v) ==
    IF w.status # 0 THEN w
    ELSE CASE k = "Content-Type"  -> [w EXCEPT !.contentType = v]
           [] k = "Cache-Control" -> [w EXCEPT !.cacheControl = v]
           [] k = "Etag"          -> [w EXCEPT !.etag = v]

\* w.WriteHeader: the first status wins
WriteHeader(w, statusCode) ==
    IF w.status # 0 THEN w ELSE [w EXCEPT !.status = statusCode]

\* what the transport does with the bytes of one Write: takes them, or fails
WriteOutcomes == {"ok", "fail"}

\* w.Write: commits 200 when no status was written yet
Write(w, chunk, out) ==
    LET w1 == WriteHeader(w, StatusOK)
    IN  IF out = "ok" THEN [w1 EXCEPT !.body = Append(@, chunk)] ELSE w1

\* faulty variant: nothing is flushed
FlushNothing(w) == w

\* if f, ok := w.(http.Flusher); ok { f.Flush() }
Flush(w) == IF w.flusher THEN [w EXCEPT !.flushed = Len(w.body)] ELSE w

\* a chunk of a response body: an error text, a JSON document or a line end
NoChunk ==
    [kind |-> "none", msg |-> "", index |-> -1, err |-> "", cut |-> FALSE,
     recs |-> <<>>, null |-> FALSE, record |-> NoRecord]

\* an error cause: fmt.Errorf("<msg> [<index>]: %w", err)
Cause(msg, index, err) ==
    [NoChunk EXCEPT !.kind = "text", !.msg = msg, !.index = index, !.err = err]

\* len(cause.Error()): only the wrapped backend error can be long
CauseLen(cause) == IF cause.err = "eLong" THEN 2000 ELSE 64

\* faulty variant: the status is not written before the cause
writeErrNoStatus(w, statusCode, cause, ok) == Write(w, cause, ok)

writeErr(w, statusCode, cause, ok) ==
    LET w1 == WriteHeader(w, statusCode)
        causeStr == IF CauseLen(cause) > 1024 THEN [cause EXCEPT !.cut = TRUE] ELSE cause
    IN  Write(w1, causeStr, ok)

\* drjson.MarshalJSONBytes of a ProvidersResponse: one object whose Providers
\* field is the list, or null for the nil slice of an empty result
MarshalProviders(providers) ==
    [NoChunk EXCEPT !.kind = "json-object", !.recs = providers,
                    !.null = (providers = <<>>)]

\* drjson.MarshalJSONBytes of one record
MarshalRecordJSON(rec) == [NoChunk EXCEPT !.kind = "json-record", !.recs = <<rec>>]

NewLine == [NoChunk EXCEPT !.kind = "nl"]

writeJSONResult(w, providers, marshalOK, ok) ==
    LET w1 == HeaderSet(w, "Content-Type", mediaTypeJSON)
    IN  IF ~marshalOK
        THEN writeErr(w1, StatusInternalServerError, Cause("marshaling response", -1, "marshal"), ok)
        ELSE Write(w1, MarshalProviders(providers), ok)

(***************************************************************************)
(* iter.ResultIter                                                         *)
(***************************************************************************)
NoIter == [items |-> <<>>, pos |-> 0, nexts |-> 0, closed |-> 0, misused |-> FALSE, live |-> FALSE]

NewIter(items) == [items |-> items, pos |-> 0, nexts |-> 0, closed |-> 0, misused |-> FALSE, live |-> TRUE]

IterHasNext(it) == it.pos < Len(it.items)

\* it.Next(), the iterator after the call
IterNext(it) ==
    [it EXCEPT !.pos = IF IterHasNext(it) THEN @ + 1 ELSE @,
               !.nexts = @ + 1,
               !.misused = @ \/ it.closed > 0]

IterVal(it) == it.items[it.pos]

IterClose(it) == [it EXCEPT !.closed = @ + 1]

(***************************************************************************)
(* Content negotiation of findProviders                                    *)
(***************************************************************************)
RECURSIVE Flatten(_)
Flatten(acceptHeaders) ==
    IF acceptHeaders = <<>> THEN <<>>
    ELSE Head(acceptHeaders) \o Flatten(Tail(acceptHeaders))

\* faulty variant: a token that does not parse is skipped
RECURSIVE ScanAcceptSkipBad(_, _, _, _)
ScanAcceptSkipBad(toks, k, supportsJSON, supportsNDJSON) ==
    IF k > Len(toks)
    THEN [err |-> FALSE, supportsJSON |-> supportsJSON, supportsNDJSON |-> supportsNDJSON]
    ELSE LET p == ParseMediaType(toks[k])
         IN  IF p.err
             THEN ScanAcceptSkipBad(toks, k + 1, supportsJSON, supportsNDJSON)
             ELSE ScanAcceptSkipBad(toks, k + 1,
                             supportsJSON \/ p.mediaType \in {mediaTypeJSON, mediaTypeWildcard},
                             supportsNDJSON \/ p.mediaType = mediaTypeNDJSON)

\* the two loops over the header values and their tokens, from token k on
RECURSIVE ScanAccept(_, _, _, _)
ScanAccept(toks, k, supportsJSON, supportsNDJSON) ==
    IF k > Len(toks)
    THEN [err |-> FALSE, supportsJSON |-> supportsJSON, supportsNDJSON |-> supportsNDJSON]
    ELSE LET p == ParseMediaType(toks[k])
         IN  IF p.err
             THEN [err |-> TRUE, supportsJSON |-> supportsJSON, supportsNDJSON |-> supportsNDJSON]
             ELSE ScanAccept(toks, k + 1,
                             supportsJSON \/ p.mediaType \in {mediaTypeJSON, mediaTypeWildcard},
                             supportsNDJSON \/ p.mediaType = mediaTypeNDJSON)

\* faulty variant: bulk is preferred when both bulk and streaming are acceptable
SelectHandlerBulkFirst(acceptHeaders, disabled, limit, streamingLimit) ==
    IF Len(acceptHeaders) = 0
    THEN [handler |-> "findProvidersJSON", limit |-> limit]
    ELSE LET s == ScanAccept(Flatten(acceptHeaders), 1, FALSE, FALSE)
         IN  IF s.err THEN [handler |-> "badAccept", limit |-> 0]
             ELSE IF s.supportsJSON
                  THEN [handler |-> "findProvidersJSON", limit |-> limit]
             ELSE IF s.supportsNDJSON /\ ~disabled
                  THEN [handler |-> "findProvidersNDJSON", limit |-> streamingLimit]
             ELSE [handler |-> "unsupported", limit |-> 0]

\* faulty variant: the streaming strategy gets the bulk limit
SelectHandlerOneLimit(acceptHeaders, disabled, limit, streamingLimit) ==
    IF Len(acceptHeaders) = 0
    THEN [handler |-> "findProvidersJSON", limit |-> limit]
    ELSE LET s == ScanAccept(Flatten(acceptHeaders), 1, FALSE, FALSE)
         IN  IF s.err THEN [handler |-> "badAccept", limit |-> 0]
             ELSE IF s.supportsNDJSON /\ ~disabled
                  THEN [handler |-> "findProvidersNDJSON", limit |-> limit]
             ELSE IF s.supportsJSON
                  THEN [handler |-> "findProvidersJSON", limit |-> limit]
             ELSE [handler |-> "unsupported", limit |-> 0]

\* handlerFunc and recordsLimit as findProviders picks them, or why it gives up
SelectHandler(acceptHeaders, disabled, limit, streamingLimit) ==
    IF Len(acceptHeaders) = 0
    THEN [handler |-> "findProvidersJSON", limit |-> limit]
    ELSE LET s == ScanAccept(Flatten(acceptHeaders), 1, FALSE, FALSE)
         IN  IF s.err THEN [handler |-> "badAccept", limit |-> 0]
             ELSE IF s.supportsNDJSON /\ ~disabled
                  THEN [handler |-> "findProvidersNDJSON", limit |-> streamingLimit]
             ELSE IF s.supportsJSON
                  THEN [handler |-> "findProvidersJSON", limit |-> limit]
             ELSE [handler |-> "unsupported", limit |-> 0]

(***************************************************************************)
(* State                                                                   *)
(***************************************************************************)
VARIABLES
    disableNDJSON,          \* server.disableNDJSON
    recordsLimit,           \* server.recordsLimit
    streamingRecordsLimit,  \* server.streamingRecordsLimit
    req,                    \* the request being served
    w,                      \* its http.ResponseWriter
    calls,                  \* the backend (ContentRouter) calls it made, in order
    provIter,               \* the sequence FindProviders returned
    handlerFunc,            \* the discovery handler picked for it
    providers,              \* findProvidersJSON: the records collected
    i,                      \* findProvidersJSON: the records counted
    b,                      \* findProvidersNDJSON: the marshalled record in hand
    rawRecord,              \* putIPNSRecord: the bytes read from the body
    record,                 \* putIPNSRecord / getIPNSRecord: the record
    pc,                     \* where the handler stands
    lookup,                 \* FindProvidersAsync: "none", or how client.FindProviders ended
    resultsIter,            \* FindProvidersAsync: the sequence the client returned
    ch,                     \* FindProvidersAsync: the channel it made
    wpc,                    \* readProviderResponses: where the worker stands
    sending,                \* readProviderResponses: the value of the blocked send
    received,               \* the caller: the values it received from the channel
    consumer                \* the caller: "none", "receiving", "stopped", "drained"

config == <<disableNDJSON, recordsLimit, streamingRecordsLimit>>

\* the state of the content router (contentrouter.go), which the server leaves alone
bridge == <<lookup, resultsIter, ch, wpc, sending, received, consumer>>

vars == <<disableNDJSON, recordsLimit, streamingRecordsLimit, req, w, calls, provIter,
          handlerFunc, providers, i, b, rawRecord, record, pc,
          lookup, resultsIter, ch, wpc, sending, received, consumer>>

NoRequest == [endpoint |-> "none", cidStr |-> "", accept |-> <<>>, header |-> "", body |-> <<>>]

Call(op, key, limit, rec) == [op |-> op, key |-> key, limit |-> limit, record |-> rec]

\* no channel yet; make(chan peer.AddrInfo) gives NewChan, an unbuffered channel.
\* closes counts the close(ch) calls, closers and senders are the parties that
\* closed it or sent on it, sendOnClosed tells of a send begun after a close
NoChan == [made |-> FALSE, closes |-> 0, closers |-> {}, senders |-> {}, sendOnClosed |-> FALSE]

NewChan == [NoChan EXCEPT !.made = TRUE]

\* close(ch) by party who
CloseChan(c, who) == [c EXCEPT !.closes = @ + 1, !.closers = @ \cup {who}]

NoAddrInfo == [ID |-> "nil", Addrs |-> <<>>]

\* before any FindProvidersAsync call
BridgeIdle ==
    /\ lookup = "none"
    /\ resultsIter = NoIter
    /\ ch = NoChan
    /\ wpc = "none"
    /\ sending = NoAddrInfo
    /\ received = <<>>
    /\ consumer = "none"

\* Handler(svc, opts...): the defaults, or what the options set
Init ==
    /\ BridgeIdle
    /\ disableNDJSON \in BOOLEAN
    /\ \E limits \in {<<DefaultRecordsLimit, DefaultStreamingRecordsLimit>>, <<5, 7>>} :
          /\ recordsLimit = limits[1]
          /\ streamingRecordsLimit = limits[2]
    /\ req = NoRequest
    /\ w = NewResponseWriter
    /\ calls = <<>>
    /\ provIter = NoIter
    /\ handlerFunc = "nil"
    /\ providers = <<>>
    /\ i = 0
    /\ b = NoChunk
    /\ rawRecord = <<>>
    /\ record = NoRecord
    /\ pc = "idle"

\* the handler returns without a discovery handler running
Finish(w1, calls1) ==
    /\ w' = w1
    /\ calls' = calls1
    /\ pc' = "done"
    /\ UNCHANGED <<provIter, providers, i, b>>

\* faulty variant: the decode error is ignored
DecodeNeverFails(c) == FALSE

\* if err != nil after cid.Decode
DecodeFailed(c) == c.err

\* faulty variant: only the signature is checked, not the name
RecordInvalidSigOnly(rec, name) == rec.sig # "ok"

\* if err != nil after ipns.ValidateWithName(record, name)
RecordInvalid(rec, name) == ~ValidateWithName(rec, name)

\* faulty variant: the record is put in front of the list
AppendProviderFront(list, val) == <<val>> \o list

\* providers = append(providers, res.Val)
AppendProvider(list, val) == Append(list, val)

\* faulty variant: the index is reported one too high
ResultCauseNext(index, err) == Cause("delegate error on result", index + 1, err)

\* fmt.Errorf("delegate error on result %d: %w", i, res.Err)
ResultCause(index, err) == Cause("delegate error on result", index, err)

(***************************************************************************)
(* GET /routing/v1/providers/{cid}                                         *)
(***************************************************************************)
findProviders ==
    /\ pc = "idle"
    /\ \E cidStr \in KeyStrings, acceptHeaders \in AcceptHeaderLists :
        LET c == CidDecode(cidStr)
            h == SelectHandler(acceptHeaders, disableNDJSON, recordsLimit, streamingRecordsLimit)
            call == Call("FindProviders", c.hash, h.limit, NoRecord)
        IN
        /\ req' = [NoRequest EXCEPT !.endpoint = "findProviders", !.cidStr = cidStr,
                                    !.accept = acceptHeaders]
        /\ UNCHANGED <<config, bridge, rawRecord, record>>
        /\ IF DecodeFailed(c)
           THEN /\ \E out \in WriteOutcomes :
                     Finish(writeErr(w, StatusBadRequest, Cause("unable to parse CID", -1, "cid"), out), calls)
                /\ UNCHANGED handlerFunc
           ELSE IF h.handler = "badAccept"
           THEN /\ \E out \in WriteOutcomes :
                     Finish(writeErr(w, StatusBadRequest,
                                     Cause("unable to parse Accept header", -1, "mime"), out), calls)
                /\ UNCHANGED handlerFunc
           ELSE IF h.handler = "unsupported"
           THEN /\ \E out \in WriteOutcomes :
                     Finish(writeErr(w, StatusBadRequest,
                                     Cause("no supported content types", -1, ""), out), calls)
                /\ UNCHANGED handlerFunc
           ELSE /\ handlerFunc' = h.handler
                /\ \/ \E err \in BackendErrors, out \in WriteOutcomes :
                        Finish(writeErr(w, StatusInternalServerError,
                                        Cause("delegate error", -1, err), out),
                               Append(calls, call))
                   \/ \E items \in ItemSeqs :
                        /\ calls' = Append(calls, call)
                        /\ provIter' = NewIter(items)
                        /\ pc' = h.handler
                        /\ UNCHANGED <<w, providers, i, b>>

\* faulty variant: the handlers return without the deferred Close
ReturnNoClose ==
    /\ pc = "return"
    /\ pc' = "done"
    /\ UNCHANGED <<config, bridge, req, w, calls, provIter, handlerFunc, providers, i, b, rawRecord, record>>

\* the deferred provIter.Close() of both discovery handlers, and their return
Return ==
    /\ pc = "return"
    /\ provIter' = IterClose(provIter)
    /\ pc' = "done"
    /\ UNCHANGED <<config, bridge, req, w, calls, handlerFunc, providers, i, b, rawRecord, record>>

\* findProvidersJSON: one turn of the loop, or the response once Next() is false
findProvidersJSON ==
    /\ pc = "findProvidersJSON"
    /\ provIter' = IterNext(provIter)
    /\ UNCHANGED <<config, bridge, req, calls, handlerFunc, b, rawRecord, record>>
    /\ IF IterHasNext(provIter)
       THEN LET res == IterVal(provIter')
            IN  IF res.Err # "nil"
                THEN \E out \in WriteOutcomes :
                       /\ w' = writeErr(w, StatusInternalServerError,
                                        ResultCause(i, res.Err), out)
                       /\ pc' = "return"
                       /\ UNCHANGED <<providers, i>>
                ELSE /\ providers' = AppendProvider(providers, res.Val)
                     /\ i' = i + 1
                     /\ UNCHANGED <<w, pc>>
       ELSE \E marshalOK \in BOOLEAN, out \in WriteOutcomes :
              /\ w' = writeJSONResult(w, providers, marshalOK, out)
              /\ pc' = "return"
              /\ UNCHANGED <<providers, i>>

\* faulty variant: the loop starts without the content type and the status
ndjsonStartNoCommit ==
    /\ pc = "findProvidersNDJSON"
    /\ pc' = "ndjsonNext"
    /\ UNCHANGED <<config, bridge, req, w, calls, provIter, handlerFunc, providers, i, b, rawRecord, record>>

\* findProvidersNDJSON: the content type and the 200 before the loop
ndjsonStart ==
    /\ pc = "findProvidersNDJSON"
    /\ \E isFlusher \in BOOLEAN :
         w' = [WriteHeader(HeaderSet(w, "Content-Type", mediaTypeNDJSON), StatusOK)
                 EXCEPT !.flusher = isFlusher]
    /\ pc' = "ndjsonNext"
    /\ UNCHANGED <<config, bridge, req, calls, provIter, handlerFunc, providers, i, b, rawRecord, record>>

\* findProvidersNDJSON: the loop condition, the error check and the marshalling
ndjsonNext ==
    /\ pc = "ndjsonNext"
    /\ provIter' = IterNext(provIter)
    /\ UNCHANGED <<config, bridge, req, w, calls, handlerFunc, providers, i, rawRecord, record>>
    /\ IF IterHasNext(provIter)
       THEN LET res == IterVal(provIter')
            IN  IF res.Err # "nil"
                THEN pc' = "return" /\ UNCHANGED b
                ELSE \E marshalOK \in BOOLEAN :
                       IF marshalOK
                       THEN b' = MarshalRecordJSON(res.Val) /\ pc' = "ndjsonWrite"
                       ELSE pc' = "return" /\ UNCHANGED b
       ELSE pc' = "return" /\ UNCHANGED b

\* findProvidersNDJSON: w.Write(b)
ndjsonWrite ==
    /\ pc = "ndjsonWrite"
    /\ \E out \in WriteOutcomes :
         /\ w' = Write(w, b, out)
         /\ pc' = IF out = "ok" THEN "ndjsonNewline" ELSE "return"
    /\ UNCHANGED <<config, bridge, req, calls, provIter, handlerFunc, providers, i, b, rawRecord, record>>

\* findProvidersNDJSON: w.Write("\n") and the flush
ndjsonNewline ==
    /\ pc = "ndjsonNewline"
    /\ \E out \in WriteOutcomes :
         IF out = "ok"
         THEN w' = Flush(Write(w, NewLine, out)) /\ b' = NoChunk /\ pc' = "ndjsonNext"
         ELSE w' = Write(w, NewLine, out) /\ pc' = "return" /\ UNCHANGED b
    /\ UNCHANGED <<config, bridge, req, calls, provIter, handlerFunc, providers, i, rawRecord, record>>

(***************************************************************************)
(* The record codec (github.com/ipfs/boxo/ipns), an external collaborator  *)
(***************************************************************************)
\* ipns.UnmarshalRecord: decoded is the record the bytes hold, NoRecord when
\* they hold none; no bytes hold none
UnmarshalRecord(raw, decoded) == IF raw = <<>> THEN NoRecord ELSE decoded

\* ipns.MarshalRecord: the canonical bytes of a record
MarshalRecord(rec) == [NoChunk EXCEPT !.kind = "ipns-record", !.record = rec]

\* strconv.FormatUint(xxhash.Sum64(rawRecord), 32): a function of the bytes
Etag(raw) == raw.record.pk \o "/" \o raw.record.sig \o "/" \o ToString(raw.record.ttlMs)

\* faulty variant: the TTL in milliseconds
MaxAgeMillis(ttlMs) == "max-age=" \o ToString(ttlMs)

\* fmt.Sprintf("max-age=%d", int(ttl.Seconds()))
MaxAge(ttlMs) == "max-age=" \o ToString(ttlMs \div 1000)

(***************************************************************************)
(* GET /routing/v1/ipns/{cid}                                              *)
(***************************************************************************)
getIPNSRecord ==
    /\ pc = "idle"
    /\ \E header \in IPNSHeaders, cidStr \in KeyStrings :
        LET c == CidDecode(cidStr)
            n == NameFromCid(c)
            call == Call("FindIPNSRecord", n.name, 0, NoRecord)
        IN
        /\ req' = [NoRequest EXCEPT !.endpoint = "getIPNSRecord", !.cidStr = cidStr,
                                    !.header = header]
        /\ UNCHANGED <<config, bridge, rawRecord, handlerFunc>>
        /\ IF ~ContainsIPNSRecordType(header)
           THEN /\ \E out \in WriteOutcomes :
                     Finish(writeErr(w, StatusNotAcceptable,
                                     Cause("content type in 'Accept' header is missing or not supported", -1, ""),
                                     out), calls)
                /\ UNCHANGED record
           ELSE IF DecodeFailed(c)
           THEN /\ \E out \in WriteOutcomes :
                     Finish(writeErr(w, StatusBadRequest, Cause("unable to parse CID", -1, "cid"), out), calls)
                /\ UNCHANGED record
           ELSE IF n.err
           THEN /\ \E out \in WriteOutcomes :
                     Finish(writeErr(w, StatusBadRequest,
                                     Cause("peer ID CID is not valid", -1, "peer"), out), calls)
                /\ UNCHANGED record
           ELSE \/ /\ \E err \in BackendErrors, out \in WriteOutcomes :
                        Finish(writeErr(w, StatusInternalServerError,
                                        Cause("delegate error", -1, err), out),
                               Append(calls, call))
                   /\ UNCHANGED record
                \/ \E found \in IPNSRecords, marshalOK \in BOOLEAN, out \in WriteOutcomes :
                     /\ record' = found
                     /\ IF ~marshalOK
                        THEN Finish(writeErr(w, StatusInternalServerError,
                                             Cause("", -1, "marshal"), out),
                                    Append(calls, call))
                        ELSE LET raw == MarshalRecord(found)
                                 w1  == IF found.ttlMs >= 0
                                        THEN HeaderSet(w, "Cache-Control", MaxAge(found.ttlMs))
                                        ELSE HeaderSet(w, "Cache-Control", "max-age=60")
                                 w2  == HeaderSet(w1, "Etag", Etag(raw))
                                 w3  == HeaderSet(w2, "Content-Type", mediaTypeIPNSRecord)
                             IN  Finish(Write(w3, raw, out), Append(calls, call))

(***************************************************************************)
(* PUT /routing/v1/ipns/{cid}                                              *)
(***************************************************************************)
\* the records a request body can hold
PutRecords == {r \in IPNSRecords : r.ttlMs = 1500}

putIPNSRecord ==
    /\ pc = "idle"
    /\ \E header \in IPNSHeaders, cidStr \in KeyStrings, body \in Bodies :
        LET c == CidDecode(cidStr)
            n == NameFromCid(c)
        IN
        /\ req' = [NoRequest EXCEPT !.endpoint = "putIPNSRecord", !.cidStr = cidStr,
                                    !.header = header, !.body = body]
        /\ UNCHANGED <<config, bridge, handlerFunc>>
        /\ IF ~ContainsIPNSRecordType(header)
           THEN /\ \E out \in WriteOutcomes :
                     Finish(writeErr(w, StatusNotAcceptable,
                                     Cause("content type in 'Content-Type' header is missing or not supported", -1, ""),
                                     out), calls)
                /\ UNCHANGED <<rawRecord, record>>
           ELSE IF DecodeFailed(c)
           THEN /\ \E out \in WriteOutcomes :
                     Finish(writeErr(w, StatusBadRequest, Cause("unable to parse CID", -1, "cid"), out), calls)
                /\ UNCHANGED <<rawRecord, record>>
           ELSE IF n.err
           THEN /\ \E out \in WriteOutcomes :
                     Finish(writeErr(w, StatusBadRequest,
                                     Cause("peer ID CID is not valid", -1, "peer"), out), calls)
                /\ UNCHANGED <<rawRecord, record>>
           ELSE \/ \* the read of the body fails (the client went away)
                   /\ \E out \in WriteOutcomes :
                        Finish(writeErr(w, StatusBadRequest,
                                        Cause("provided record is too long", -1, "read"), out), calls)
                   /\ UNCHANGED <<rawRecord, record>>
                \/ \E decoded \in PutRecords \cup {NoRecord} :
                     LET raw == ReadAllLimited(body)
                         rec == UnmarshalRecord(raw, decoded)
                         call == Call("ProvideIPNSRecord", n.name, 0, rec)
                     IN
                     /\ rawRecord' = raw
                     /\ record' = rec
                     /\ IF rec = NoRecord
                        THEN \E out \in WriteOutcomes :
                               Finish(writeErr(w, StatusBadRequest,
                                               Cause("provided record is invalid", -1, "unmarshal"), out),
                                      calls)
                        ELSE IF RecordInvalid(rec, n.name)
                        THEN \E out \in WriteOutcomes :
                               Finish(writeErr(w, StatusBadRequest,
                                               Cause("provided record is invalid", -1, "validate"), out),
                                      calls)
                        ELSE \/ \E err \in BackendErrors, out \in WriteOutcomes :
                                  Finish(writeErr(w, StatusInternalServerError,
                                                  Cause("delegate error", -1, err), out),
                                         Append(calls, call))
                             \/ Finish(WriteHeader(w, StatusOK), Append(calls, call))

(***************************************************************************)
(* The transport hands the next request to a handler, with a new writer    *)
(***************************************************************************)
ServeNext ==
    /\ pc = "done"
    /\ req' = NoRequest
    /\ w' = NewResponseWriter
    /\ calls' = <<>>
    /\ provIter' = NoIter
    /\ handlerFunc' = "nil"
    /\ providers' = <<>>
    /\ i' = 0
    /\ b' = NoChunk
    /\ rawRecord' = <<>>
    /\ record' = NoRecord
    /\ pc' = "idle"
    /\ UNCHANGED <<config, bridge>>

Next ==
    \/ findProviders
    \/ findProvidersJSON
    \/ ndjsonStart
    \/ ndjsonNext
    \/ ndjsonWrite
    \/ ndjsonNewline
    \/ Return
    \/ getIPNSRecord
    \/ putIPNSRecord
    \/ ServeNext

Spec == Init /\ [][Next]_vars

(***************************************************************************)
(* The content router (contentrouter.go): FindProvidersAsync and its       *)
(* worker readProviderResponses, and the caller that reads the channel.    *)
(* Peer records are taken to carry an ID (the worker dereferences it).     *)
(***************************************************************************)
\* the longest sequence the client returns
MaxSourceItems == 3

SchemaPeer == "peer"

\* the records of the client: two peer records, a record of another schema,
\* and a record that names the peer schema without being a *types.PeerRecord
SourceRecords ==
    {[Schema |-> "peer", Type |-> "*types.PeerRecord", ID |-> "peerA",
      Addrs |-> <<[Multiaddr |-> "/ip4/1"], [Multiaddr |-> "/ip4/2"]>>],
     [Schema |-> "peer", Type |-> "*types.PeerRecord", ID |-> "peerB", Addrs |-> <<>>],
     [Schema |-> "bitswap", Type |-> "*types.BitswapRecord", ID |-> "peerA",
      Addrs |-> <<[Multiaddr |-> "/ip4/1"]>>],
     [Schema |-> "peer", Type |-> "*types.UnknownRecord", ID |-> "peerB", Addrs |-> <<>>]}

NoSourceRecord == [Schema |-> "nil", Type |-> "nil", ID |-> "nil", Addrs |-> <<>>]

\* iter.Result[types.Record]: a record, or an error
SourceItems ==
    {[Val |-> r, Err |-> "nil"] : r \in SourceRecords} \cup {[Val |-> NoSourceRecord, Err |-> "e1"]}

SourceSeqs == SeqsUpTo(SourceItems, MaxSourceItems)

\* the server's variables, which the content router leaves alone
server == <<config, req, w, calls, provIter, handlerFunc, providers, i, b, rawRecord, record, pc>>

\* faulty variant: the failed lookup hands back an open channel
FindProvidersAsyncOpen ==
    /\ lookup = "none"
    /\ \/ /\ lookup' = "failed"
          /\ ch' = NewChan
          /\ consumer' = "receiving"
          /\ UNCHANGED <<resultsIter, wpc, sending, received>>
       \/ \E items \in SourceSeqs :
            /\ lookup' = "ok"
            /\ resultsIter' = NewIter(items)
            /\ ch' = NewChan
            /\ wpc' = "loop"
            /\ consumer' = "receiving"
            /\ UNCHANGED <<sending, received>>
    /\ UNCHANGED server

\* faulty variant: the failed lookup closes its channel and goes on to start
\* the worker on it
FindProvidersAsyncNoReturn ==
    /\ lookup = "none"
    /\ \/ /\ lookup' = "failed"
          /\ resultsIter' = NewIter(<<>>)
          /\ ch' = CloseChan(NewChan, "FindProvidersAsync")
          /\ wpc' = "loop"
          /\ consumer' = "receiving"
          /\ UNCHANGED <<sending, received>>
       \/ \E items \in SourceSeqs :
            /\ lookup' = "ok"
            /\ resultsIter' = NewIter(items)
            /\ ch' = NewChan
            /\ wpc' = "loop"
            /\ consumer' = "receiving"
            /\ UNCHANGED <<sending, received>>
    /\ UNCHANGED server

\* FindProvidersAsync: the lookup fails and a closed channel is returned, or
\* the worker is started on the sequence and the open channel is returned
FindProvidersAsync ==
    /\ lookup = "none"
    /\ \/ /\ lookup' = "failed"
          /\ ch' = CloseChan(NewChan, "FindProvidersAsync")
          /\ consumer' = "receiving"
          /\ UNCHANGED <<resultsIter, wpc, sending, received>>
       \/ \E items \in SourceSeqs :
            /\ lookup' = "ok"
            /\ resultsIter' = NewIter(items)
            /\ ch' = NewChan
            /\ wpc' = "loop"
            /\ consumer' = "receiving"
            /\ UNCHANGED <<sending, received>>
    /\ UNCHANGED server

\* faulty variant: every record is forwarded, whatever its schema
ForwardsAnySchema(v) == TRUE

\* readProviderResponses: the record is of the peer schema and is a *types.PeerRecord
Forwards(v) == v.Schema = SchemaPeer /\ v.Type = "*types.PeerRecord"

\* faulty variant: the worker returns at an error item
AfterErrorReturn == "iterClose"

\* readProviderResponses: where the worker goes at an error item (continue)
AfterError == "loop"

\* readProviderResponses: the peer.AddrInfo made of a peer record
ToAddrInfo(v) == [ID |-> v.ID, Addrs |-> [k \in DOMAIN v.Addrs |-> v.Addrs[k].Multiaddr]]

\* readProviderResponses: one turn of the loop, up to the send it begins
readProviderResponses ==
    /\ wpc = "loop"
    /\ resultsIter' = IterNext(resultsIter)
    /\ IF IterHasNext(resultsIter)
       THEN LET res == IterVal(resultsIter')
            IN  IF res.Err # "nil"
                THEN wpc' = AfterError /\ UNCHANGED <<sending, ch>>
                ELSE IF Forwards(res.Val)
                THEN /\ sending' = ToAddrInfo(res.Val)
                     /\ ch' = [ch EXCEPT !.senders = @ \cup {"readProviderResponses"},
                                         !.sendOnClosed = @ \/ ch.closes > 0]
                     /\ wpc' = "send"
                ELSE wpc' = "loop" /\ UNCHANGED <<sending, ch>>
       ELSE wpc' = "iterClose" /\ UNCHANGED <<sending, ch>>
    /\ UNCHANGED <<lookup, received, consumer, server>>

\* faulty variant: the send completes with no receiver
chanSendNoReceiver ==
    /\ wpc = "send"
    /\ ch.closes = 0
    /\ IF consumer = "receiving"
       THEN received' = Append(received, sending)
       ELSE UNCHANGED received
    /\ sending' = NoAddrInfo
    /\ wpc' = "loop"
    /\ UNCHANGED <<lookup, resultsIter, ch, consumer, server>>

\* ch <- peer.AddrInfo{...}: the channel has no buffer, so the send completes
\* when the caller receives the value, and blocks until then
chanSend ==
    /\ wpc = "send"
    /\ ch.closes = 0
    /\ consumer = "receiving"
    /\ received' = Append(received, sending)
    /\ sending' = NoAddrInfo
    /\ wpc' = "loop"
    /\ UNCHANGED <<lookup, resultsIter, ch, consumer, server>>

\* the deferred iter.Close(), which runs first
deferredIterClose ==
    /\ wpc = "iterClose"
    /\ resultsIter' = IterClose(resultsIter)
    /\ wpc' = "chanClose"
    /\ UNCHANGED <<lookup, ch, sending, received, consumer, server>>

\* faulty variant: the worker returns without closing the channel
deferredChanCloseSkipped ==
    /\ wpc = "chanClose"
    /\ wpc' = "done"
    /\ UNCHANGED <<lookup, resultsIter, ch, sending, received, consumer, server>>

\* the deferred close(ch), which runs last
deferredChanClose ==
    /\ wpc = "chanClose"
    /\ ch' = CloseChan(ch, "readProviderResponses")
    /\ wpc' = "done"
    /\ UNCHANGED <<lookup, resultsIter, sending, received, consumer, server>>

\* the caller's receive finds the channel closed
receiveClosed ==
    /\ consumer = "receiving"
    /\ ch.closes > 0
    /\ wpc # "send"
    /\ consumer' = "drained"
    /\ UNCHANGED <<lookup, resultsIter, ch, wpc, sending, received, server>>

\* the caller stops receiving from the channel
stopReceiving ==
    /\ consumer = "receiving"
    /\ ch.closes = 0
    /\ consumer' = "stopped"
    /\ UNCHANGED <<lookup, resultsIter, ch, wpc, sending, received, server>>

\* the steps of the worker
Worker == readProviderResponses \/ deferredIterClose \/ deferredChanClose

BridgeInit == Init /\ ~disableNDJSON /\ recordsLimit = DefaultRecordsLimit

BridgeNext ==
    \/ FindProvidersAsync
    \/ readProviderResponses
    \/ chanSend
    \/ deferredIterClose
    \/ deferredChanClose
    \/ receiveClosed
    \/ stopReceiving

BridgeSpec == BridgeInit /\ [][BridgeNext]_vars

\* the scheduler runs the worker when it can run, and a caller that is
\* receiving takes the value of a blocked send
BridgeFairSpec ==
    BridgeSpec /\ WF_vars(Worker) /\ WF_vars(chanSend) /\ WF_vars(receiveClosed)

(***************************************************************************)
(* Properties                                                              *)
(***************************************************************************)
\* the path segments that are no CID
MalformedKeys == {"not-a-cid"}

\* the Accept tokens mime.ParseMediaType rejects
MalformedTokens == {"", "application/json;q"}

\* the tokens of the request's Accept header values
ReqTokens == UNION {{req.accept[a][k] : k \in DOMAIN req.accept[a]} : a \in DOMAIN req.accept}

\* the name the path key of the request stands for
ReqName == NameFromCid(CidDecode(req.cidStr)).name

Served == req.endpoint # "none"

\* C1: on each of the three endpoints, a request whose path key does not decode
\* makes no backend call (FindProviders, FindIPNSRecord, ProvideIPNSRecord),
\* whatever its headers and body are.
C1_UndecodableKeyNeverReachesBackend ==
    (Served /\ req.cidStr \in MalformedKeys) => calls = <<>>

C1_Witness ==
    /\ pc = "done"
    /\ req.endpoint = "putIPNSRecord"
    /\ req.cidStr \in MalformedKeys
    /\ ContainsIPNSRecordType(req.header)
    /\ Len(req.body) > 0
    /\ w.status = StatusBadRequest
    /\ calls = <<>>

\* C2: PUT record calls the store only with a record that decoded from the body
\* and passed validation against the name derived from the path key, and gives
\* it exactly that name; a request with an accepted Content-Type whose record
\* did not decode, is not validly signed or is not the name's answers 400 and
\* never calls the store.
C2_StoreOnlyValidatedRecord ==
    req.endpoint = "putIPNSRecord" =>
        /\ \A k \in DOMAIN calls :
              /\ calls[k].op = "ProvideIPNSRecord"
              /\ record # NoRecord
              /\ calls[k].record = record
              /\ record.sig = "ok"
              /\ record.pk = ReqName
              /\ calls[k].key = ReqName
              /\ ContainsIPNSRecordType(req.header)
        /\ Len(calls) <= 1
        /\ ( /\ pc = "done"
             /\ ContainsIPNSRecordType(req.header)
             /\ (record = NoRecord \/ record.sig # "ok" \/ record.pk # ReqName) )
           => (w.status = StatusBadRequest /\ calls = <<>>)

C2_Witness ==
    /\ pc = "done"
    /\ req.endpoint = "putIPNSRecord"
    /\ record # NoRecord
    /\ record.sig = "ok"
    /\ record.pk # ReqName
    /\ ReqName \in Names
    /\ w.status = StatusBadRequest
    /\ calls = <<>>

\* the records a bulk JSON document lists
Entries(chunk) == IF chunk.null THEN <<>> ELSE chunk.recs

ItemVals(items) == [k \in DOMAIN items |-> items[k].Val]

AllValid(items) == \A k \in DOMAIN items : items[k].Err = "nil"

\* C3: GET providers with a well-formed key and no Accept header, over a
\* sequence of N valid records and no error item, answers 200 with one JSON
\* object that lists exactly those N records in the order the sequence
\* yielded them (unless marshalling fails, which answers 500, or the transport
\* fails the one write of the body).
C3_BulkListsAllRecordsInOrder ==
    ( /\ pc = "done"
      /\ req.endpoint = "findProviders"
      /\ req.cidStr \notin MalformedKeys
      /\ req.accept = <<>>
      /\ provIter.live
      /\ AllValid(provIter.items) )
    =>
      \/ /\ w.status = StatusInternalServerError
         /\ \A k \in DOMAIN w.body : w.body[k].msg = "marshaling response"
      \/ /\ w.status = StatusOK
         /\ w.contentType = mediaTypeJSON
         /\ Len(w.body) <= 1
         /\ \A k \in DOMAIN w.body :
               /\ w.body[k].kind = "json-object"
               /\ Entries(w.body[k]) = ItemVals(provIter.items)
               /\ Len(Entries(w.body[k])) = Len(provIter.items)

C3_Witness ==
    /\ pc = "done"
    /\ req.endpoint = "findProviders"
    /\ req.accept = <<>>
    /\ provIter.live
    /\ Len(provIter.items) >= 2
    /\ AllValid(provIter.items)
    /\ provIter.items[1].Val # provIter.items[2].Val
    /\ w.status = StatusOK
    /\ Len(w.body) = 1
    /\ Entries(w.body[1]) = ItemVals(provIter.items)

\* what the Accept tokens of the request ask for
AsksStreaming == \E t \in ReqTokens : ParseMediaType(t).mediaType = mediaTypeNDJSON

AsksBulk ==
    \E t \in ReqTokens : ParseMediaType(t).mediaType \in {mediaTypeJSON, mediaTypeWildcard}

ExpectedStrategy ==
    IF req.accept = <<>> THEN "findProvidersJSON"
    ELSE IF AsksStreaming /\ ~disableNDJSON THEN "findProvidersNDJSON"
    ELSE IF AsksBulk THEN "findProvidersJSON"
    ELSE "none"

\* C4: for a GET providers request with a well-formed key and well-formed Accept
\* tokens: no Accept header picks bulk; the streaming type with streaming not
\* disabled picks streaming, whatever else is listed; otherwise a bulk or
\* wildcard type picks bulk; otherwise the request fails with 400 'no supported
\* content types' and the backend is not called.
C4_NegotiationPicksStrategy ==
    ( /\ req.endpoint = "findProviders"
      /\ req.cidStr \notin MalformedKeys
      /\ ReqTokens \cap MalformedTokens = {} )
    =>
      IF handlerFunc = "nil"
      THEN /\ ExpectedStrategy = "none"
           /\ pc = "done"
           /\ calls = <<>>
           /\ provIter = NoIter
           /\ w.status = StatusBadRequest
           /\ \A k \in DOMAIN w.body : w.body[k].msg = "no supported content types"
      ELSE /\ handlerFunc = ExpectedStrategy
           /\ Len(calls) = 1
           /\ calls[1].op = "FindProviders"
           /\ pc \in {handlerFunc, "done", "return"} \cup
                  (IF handlerFunc = "findProvidersNDJSON"
                   THEN {"ndjsonNext", "ndjsonWrite", "ndjsonNewline"} ELSE {})

C4_Witness ==
    /\ req.endpoint = "findProviders"
    /\ ReqTokens \cap MalformedTokens = {}
    /\ AsksStreaming
    /\ AsksBulk
    /\ ~disableNDJSON
    /\ handlerFunc = "findProvidersNDJSON"
    /\ pc = "ndjsonNext"

\* C5: a GET providers request with an unparseable media-type token anywhere in
\* its Accept header values answers 400 and never calls FindProviders, also when
\* other tokens, of the same or another value, are supported media types.
C5_MalformedAcceptTokenRejected ==
    ( /\ req.endpoint = "findProviders"
      /\ ReqTokens \cap MalformedTokens # {} )
    =>
      /\ pc = "done"
      /\ w.status = StatusBadRequest
      /\ calls = <<>>
      /\ provIter = NoIter

C5_Witness ==
    /\ pc = "done"
    /\ req.endpoint = "findProviders"
    /\ req.cidStr \notin MalformedKeys
    /\ Len(req.accept) = 2
    /\ req.accept[1][1] = "application/x-ndjson"
    /\ req.accept[2][1] \in MalformedTokens
    /\ w.status = StatusBadRequest
    /\ calls = <<>>

\* C6 as stated: a malformed path key answers 400 on all three endpoints for
\* every combination of request headers, with no backend call.
C6_Original ==
    (pc = "done" /\ Served /\ req.cidStr \in MalformedKeys)
    => (w.status = StatusBadRequest /\ calls = <<>>)

\* C6 amended: a malformed path key never reaches the backend; it answers 400
\* on GET providers for every Accept header, and on GET record and PUT record
\* when the Accept / Content-Type header names the record media type; without
\* that header value the two record endpoints answer 406 before they look at
\* the key.
C6_MalformedKeyStatus ==
    (pc = "done" /\ Served /\ req.cidStr \in MalformedKeys)
    =>
      /\ calls = <<>>
      /\ w.status =
            IF req.endpoint = "findProviders" \/ ContainsIPNSRecordType(req.header)
            THEN StatusBadRequest
            ELSE StatusNotAcceptable

C6_Witness ==
    /\ pc = "done"
    /\ req.endpoint = "getIPNSRecord"
    /\ req.cidStr \in MalformedKeys
    /\ req.header = ""
    /\ w.status = StatusNotAcceptable
    /\ calls = <<>>

\* C7 as stated: PUT record with a body longer than the maximum record size
\* always answers 400 with a message that says the record is too long, and the
\* store is never called. Taken here for the requests that get as far as the
\* body (an accepted Content-Type, a path key that names a peer) and whose
\* body holds, in its first MaxRecordSize bytes, a valid record of that peer;
\* the other over-long bodies answer 400 'provided record is invalid'.
C7_OversizeBodyRejected ==
    ( /\ pc = "done"
      /\ req.endpoint = "putIPNSRecord"
      /\ ContainsIPNSRecordType(req.header)
      /\ ReqName \in Names
      /\ Len(req.body) > MaxRecordSize
      /\ record # NoRecord
      /\ ValidateWithName(record, ReqName) )
    =>
      /\ w.status = StatusBadRequest
      /\ \A k \in DOMAIN w.body : w.body[k].msg = "provided record is too long"
      /\ calls = <<>>

\* C8: the sequence a discovery lookup returned is released exactly once by the
\* time the handler (bulk or streaming) has returned, on every exit path; it
\* is never released twice and never pulled after its release.
C8_SequenceReleasedExactlyOnce ==
    provIter.live =>
        /\ provIter.closed <= 1
        /\ ~provIter.misused
        /\ (pc = "done" => provIter.closed = 1)
        /\ (pc # "done" => provIter.closed = 0)

C8_Witness ==
    /\ pc = "done"
    /\ provIter.live
    /\ provIter.closed = 1
    /\ handlerFunc = "findProvidersJSON"
    /\ provIter.pos < Len(provIter.items)
    /\ provIter.items[provIter.pos].Err # "nil"
    /\ w.status = StatusInternalServerError

\* the 1-based position of the first error item, Len + 1 when there is none
FirstError(items) ==
    IF AllValid(items) THEN Len(items) + 1
    ELSE CHOOSE k \in DOMAIN items :
            /\ items[k].Err # "nil"
            /\ \A j \in 1..(k - 1) : items[j].Err = "nil"

\* C9: in the bulk strategy nothing is written while the sequence is drained,
\* and when the item at 0-based index i is the first to carry an error the
\* handler pulls no further item and answers 500 with a body that reports
\* index i and that error; no record of indices 0..i-1 is in the response.
C9_BulkErrorReportsIndex ==
    (handlerFunc = "findProvidersJSON" /\ provIter.live) =>
        /\ pc = "findProvidersJSON" => (w.status = 0 /\ w.body = <<>>)
        /\ provIter.nexts <= FirstError(provIter.items)
        /\ (pc \in {"return", "done"} /\ ~AllValid(provIter.items)) =>
              /\ provIter.nexts = FirstError(provIter.items)
              /\ w.status = StatusInternalServerError
              /\ Len(w.body) <= 1
              /\ \A k \in DOMAIN w.body :
                    /\ w.body[k].kind = "text"
                    /\ w.body[k].msg = "delegate error on result"
                    /\ w.body[k].index = FirstError(provIter.items) - 1
                    /\ w.body[k].err = provIter.items[FirstError(provIter.items)].Err
                    /\ w.body[k].recs = <<>>

C9_Witness ==
    /\ pc = "done"
    /\ handlerFunc = "findProvidersJSON"
    /\ provIter.live
    /\ FirstError(provIter.items) = 2
    /\ Len(provIter.items) >= 2
    /\ Len(w.body) = 1
    /\ w.body[1].index = 1
    /\ ~w.body[1].cut
    /\ w.status = StatusInternalServerError

\* the lines of the records items[1..n], as the streaming strategy writes them
Lines(items, n) ==
    [k \in 1..(2 * n) |->
        IF k % 2 = 1 THEN MarshalRecordJSON(items[(k + 1) \div 2].Val) ELSE NewLine]

IsPrefix(s, t) == Len(s) <= Len(t) /\ \A k \in DOMAIN s : s[k] = t[k]

\* C10: the streaming strategy commits 200 and the streaming content type
\* before its first pull; the status stays 200 and no error text is ever
\* written; the body is always the lines of the records pulled before the
\* last one, in order, plus what was written for the last one; on an error
\* item the handler stops with exactly the lines of the records before it, and
\* after a failed write nothing more is pulled or written.
C10_StreamCommitsThenStopsSilently ==
    (handlerFunc = "findProvidersNDJSON" /\ provIter.live) =>
        LET items == provIter.items
            n == provIter.pos
            done == IF n = 0 THEN 0 ELSE n - 1
            rest == SubSeq(w.body, 2 * done + 1, Len(w.body))
        IN
        /\ provIter.nexts > 0 => (w.status = StatusOK /\ w.contentType = mediaTypeNDJSON)
        /\ w.status \in {0, StatusOK}
        /\ \A k \in DOMAIN w.body : w.body[k].kind \in {"json-record", "nl"}
        /\ provIter.nexts <= FirstError(items)
        /\ Len(w.body) >= 2 * done
        /\ IsPrefix(Lines(items, done), w.body)
        /\ Len(rest) <= 2
        /\ (n > 0 /\ items[n].Err # "nil") =>
              (pc \in {"return", "done"} /\ w.body = Lines(items, done))
        /\ (Len(rest) >= 1) => rest[1] = MarshalRecordJSON(items[n].Val)
        /\ (Len(rest) = 2) => rest[2] = NewLine
        /\ provIter.nexts \in {n, n + 1}
        /\ (n > 0 /\ pc \in {"return", "done"} /\ Len(rest) < 2) => provIter.nexts = n

C10_Witness ==
    /\ pc = "done"
    /\ handlerFunc = "findProvidersNDJSON"
    /\ provIter.live
    /\ Len(provIter.items) >= 2
    /\ provIter.items[1].Err = "nil"
    /\ provIter.items[2].Err # "nil"
    /\ provIter.nexts = 2
    /\ w.status = StatusOK
    /\ w.body = Lines(provIter.items, 1)

(***************************************************************************)
(* The content router                                                      *)
(***************************************************************************)
\* the multiaddresses of the peers of SourceRecords
AddrsOf(id) == IF id = "peerA" THEN <<"/ip4/1", "/ip4/2">> ELSE <<>>

IsPeerItem(item) == item.Err = "nil" /\ item.Val.Type = "*types.PeerRecord"

\* the addresses of the peer records among items, in their order
RECURSIVE PeerValues(_)
PeerValues(items) ==
    IF items = <<>> THEN <<>>
    ELSE LET rest == PeerValues(Tail(items))
             item == Head(items)
         IN  IF IsPeerItem(item)
             THEN <<[ID |-> item.Val.ID, Addrs |-> AddrsOf(item.Val.ID)]>> \o rest
             ELSE rest

\* the items the worker has pulled so far
Pulled == SubSeq(resultsIter.items, 1, resultsIter.pos)

PeerCount(items, n) == Cardinality({k \in 1..n : IsPeerItem(items[k])})

\* C12 as stated: once the sequence has delivered an error item the worker
\* ends, so the caller receives no record that follows the first error item.
C12_Original ==
    (lookup = "ok" /\ ~AllValid(resultsIter.items)) =>
        Len(received) <= PeerCount(resultsIter.items, FirstError(resultsIter.items))

\* C12: an error item does not end the worker: the channel is closed and the
\* sequence released only after Next() has returned false at the end of the
\* sequence, and a caller that drained the channel has received one value
\* for every peer record, those that follow an error item included.
C12_ErrorItemSkipped ==
    lookup = "ok" =>
        /\ (ch.closes > 0 \/ resultsIter.closed > 0) =>
               /\ resultsIter.pos = Len(resultsIter.items)
               /\ resultsIter.nexts = Len(resultsIter.items) + 1
        /\ consumer = "drained" =>
               Len(received) = PeerCount(resultsIter.items, Len(resultsIter.items))

C12_Witness ==
    /\ consumer = "drained"
    /\ ch.closes = 1
    /\ resultsIter.closed = 1
    /\ Len(resultsIter.items) = 3
    /\ resultsIter.items[1].Err # "nil"
    /\ IsPeerItem(resultsIter.items[2])
    /\ IsPeerItem(resultsIter.items[3])
    /\ Len(received) = 2

\* C13: when the client's lookup fails, FindProvidersAsync returns a channel
\* that is already closed (closed once, by FindProvidersAsync itself), no
\* worker is started, no sequence is made or pulled, nothing is ever sent and
\* the caller receives no value.
C13_FailedLookupGivesClosedChannel ==
    lookup = "failed" =>
        /\ ch.made /\ ch.closes = 1 /\ ch.closers = {"FindProvidersAsync"}
        /\ wpc = "none"
        /\ resultsIter = NoIter
        /\ ch.senders = {} /\ sending = NoAddrInfo
        /\ received = <<>>

C13_Witness ==
    /\ lookup = "failed"
    /\ consumer = "drained"
    /\ received = <<>>

(***************************************************************************)
(* GET record: the caching header                                          *)
(***************************************************************************)
\* the Cache-Control value of a record: its TTL in whole seconds, or one
\* minute when the TTL cannot be read
ExpectedCacheControl(rec) ==
    IF rec.ttlMs = 1500 THEN "max-age=1"
    ELSE IF rec.ttlMs = 120000 THEN "max-age=120"
    ELSE "max-age=60"

\* C14: a GET record answered 200 carries Cache-Control max-age equal to the
\* record's TTL in whole seconds, or max-age=60 when the TTL cannot be read;
\* every other answer (406, 400, 500 from the backend or from the
\* serialization) carries no Cache-Control, so the header is set only after
\* the backend returned the record and it serialized.
C14_CacheControlFromTTL ==
    (req.endpoint = "getIPNSRecord" /\ pc = "done") =>
        IF w.status = StatusOK
        THEN /\ record # NoRecord
             /\ Len(calls) = 1
             /\ w.cacheControl = ExpectedCacheControl(record)
        ELSE w.cacheControl = ""

C14_Witness ==
    /\ req.endpoint = "getIPNSRecord"
    /\ pc = "done"
    /\ w.status = StatusOK
    /\ record.ttlMs = 1500
    /\ w.cacheControl = "max-age=1"

(***************************************************************************)
(* The streaming strategy: write and flush before the next pull            *)
(***************************************************************************)
\* the handler is about to pull the next item of the stream
AboutToPull == handlerFunc = "findProvidersNDJSON" /\ provIter.live /\ pc = "ndjsonNext"

\* C15 as stated: whenever the streaming strategy pulls its next item, every
\* record pulled before is written with its line terminator and flushed.
C15_Original ==
    AboutToPull =>
        /\ w.body = Lines(provIter.items, provIter.pos)
        /\ w.flushed = Len(w.body)

\* C15: whenever the streaming strategy pulls its next item, every record
\* pulled before is written with its line terminator and none is held, and
\* all of it is flushed when the writer is an http.Flusher (nothing is flushed
\* when it is not); at every point at most one pulled record is not yet
\* written in full.
C15_WrittenBeforeNextPull ==
    /\ AboutToPull =>
          /\ w.body = Lines(provIter.items, provIter.pos)
          /\ b = NoChunk
          /\ w.flushed = IF w.flusher THEN Len(w.body) ELSE 0
    /\ (handlerFunc = "findProvidersNDJSON" /\ provIter.live) =>
          /\ 2 * provIter.pos <= Len(w.body) + 2
          /\ w.flushed <= Len(w.body)

C15_Witness ==
    /\ AboutToPull
    /\ provIter.pos = 2
    /\ w.flusher
    /\ Len(w.body) = 4
    /\ w.flushed = 4

(***************************************************************************)
(* The worker and a caller that stops receiving                            *)
(***************************************************************************)
\* the worker has released the sequence and closed the channel
WorkerFinished == wpc = "done" /\ resultsIter.closed = 1 /\ ch.closes = 1

\* the worker stands at a send that the stopped caller will not take
BlockedOnSend == lookup = "ok" /\ wpc = "send" /\ consumer = "stopped"

\* C16 as stated: once started, the worker reaches the end of the sequence,
\* releases it and closes the channel, whether or not the caller keeps
\* receiving.
C16_Original == (lookup = "ok") ~> WorkerFinished

\* C16: the worker cannot be cancelled and sends on a channel without buffer:
\* it releases the sequence and closes the channel only after the caller has
\* received a value for every peer record; when the caller stops receiving
\* while a value is being sent, the worker stays at that send, with the
\* sequence not released, the channel not closed and no further item pulled.
C16_BlockedWhenCallerStops ==
    /\ [](lookup = "ok" =>
            /\ (resultsIter.closed > 0 \/ ch.closes > 0) =>
                   received = PeerValues(resultsIter.items)
            /\ BlockedOnSend => (resultsIter.closed = 0 /\ ch.closes = 0))
    /\ [][BlockedOnSend => (BlockedOnSend' /\ UNCHANGED <<resultsIter, ch, sending, received>>)]_vars

C16_Witness ==
    /\ BlockedOnSend
    /\ resultsIter.pos = 1
    /\ Len(resultsIter.items) = 3
    /\ IsPeerItem(resultsIter.items[3])
    /\ received = <<>>

\* C17: with a finite sequence, a fairly scheduled worker and a caller that
\* never stops receiving, the worker in the end has released the sequence
\* and closed the channel, also when it forwarded nothing; the sequence is
\* released and the channel closed at most once each; and the channel is
\* closed only after the last Next() has returned and the sequence has been
\* released, with no Next() after the release.
C17_WorkerEndsAndReleasesOnce ==
    /\ (lookup = "ok") ~> (WorkerFinished \/ consumer = "stopped")
    /\ [](resultsIter.closed <= 1 /\ ch.closes <= 1)
    /\ []((lookup = "ok" /\ ch.closes > 0) =>
             /\ resultsIter.closed = 1
             /\ resultsIter.nexts = Len(resultsIter.items) + 1
             /\ ~resultsIter.misused)

C17_Witness ==
    /\ WorkerFinished
    /\ consumer = "drained"
    /\ Len(resultsIter.items) = 3
    /\ received = <<>>

(***************************************************************************)
(* GET providers: the limit handed to the backend                          *)
(***************************************************************************)
\* C18: a GET providers request calls the backend at most once; the limit of
\* that call is the streaming limit when the streaming strategy was chosen
\* and the bulk limit when the bulk strategy was chosen, so it is the bulk
\* limit for a request without Accept header and whenever streaming is
\* disabled.
C18_LimitFollowsStrategy ==
    req.endpoint = "findProviders" =>
        /\ Len(calls) <= 1
        /\ calls # <<>> =>
              /\ calls[1].op = "FindProviders"
              /\ handlerFunc \in {"findProvidersJSON", "findProvidersNDJSON"}
              /\ calls[1].limit = IF handlerFunc = "findProvidersNDJSON"
                                  THEN streamingRecordsLimit
                                  ELSE recordsLimit
              /\ (req.accept = <<>> \/ disableNDJSON) => calls[1].limit = recordsLimit

C18_Witness ==
    /\ req.endpoint = "findProviders"
    /\ disableNDJSON
    /\ AsksStreaming
    /\ AsksBulk
    /\ recordsLimit = 5
    /\ Len(calls) = 1
    /\ calls[1].limit = 5

(***************************************************************************)
(* PUT record: the read of the body                                        *)
(***************************************************************************)
\* the first n elements of s, as many as it has
FirstBytes(s, n) == [k \in 1..(IF Len(s) < n THEN Len(s) ELSE n) |-> s[k]]

\* the PUT request got past the checks of the header and of the key
PutReachedRead ==
    /\ req.endpoint = "putIPNSRecord"
    /\ pc = "done"
    /\ ContainsIPNSRecordType(req.header)
    /\ req.cidStr = "k51-peerA"

\* the record was decoded from bytes that were read
PutDecoded ==
    \/ record # NoRecord
    \/ calls # <<>>
    \/ \E k \in DOMAIN w.body : w.body[k].msg = "provided record is invalid"

\* C19: no PUT is rejected for the size of its body: a 'provided record is
\* too long' answer always wraps a read error and is given with nothing
\* decoded and nothing stored; whenever the record was decoded, the bytes
\* decoded are the first min(len(body), MaxRecordSize) bytes of the body, and
\* an over-long body goes through decoding and validation like any other.
C19_BodyTruncatedNotRejected ==
    PutReachedRead =>
        /\ \A k \in DOMAIN w.body :
               w.body[k].msg = "provided record is too long" =>
                   (w.body[k].err = "read" /\ record = NoRecord /\ calls = <<>> /\ rawRecord = <<>>)
        /\ PutDecoded => rawRecord = FirstBytes(req.body, MaxRecordSize)
        /\ rawRecord \in {<<>>, FirstBytes(req.body, MaxRecordSize)}
        /\ calls # <<>> => ValidateWithName(record, "peerA")

C19_Witness ==
    /\ PutReachedRead
    /\ Len(req.body) = MaxRecordSize + 1
    /\ Len(rawRecord) = MaxRecordSize
    /\ record # NoRecord
    /\ calls # <<>>
    /\ w.status = StatusOK

(***************************************************************************)
(* The channel: one closer, one sender                                     *)
(***************************************************************************)
\* C20: the channel of FindProvidersAsync is closed at most once, no send is
\* begun on it after it was closed, and one party at most closes it or sends
\* on it: FindProvidersAsync itself, which only closes, when the lookup
\* failed, and the worker otherwise, which closes after its last send.
C20_ChannelClosedOnceBySingleParty ==
    /\ ch.closes <= 1
    /\ ~ch.sendOnClosed
    /\ Cardinality(ch.closers \cup ch.senders) <= 1
    /\ lookup = "failed" => (ch.closers = {"FindProvidersAsync"} /\ ch.senders = {})
    /\ lookup = "ok" =>
          /\ ch.closers \cup ch.senders \subseteq {"readProviderResponses"}
          /\ ch.closes > 0 => (wpc = "done" /\ sending = NoAddrInfo)

C20_Witness ==
    /\ lookup = "ok"
    /\ consumer = "stopped"
    /\ ch.closes = 1
    /\ ch.closers = {"readProviderResponses"}
    /\ ch.senders = {"readProviderResponses"}
    /\ Len(received) = 2

=============================================================================
